---- MODULE Spec2Model ----
(***************************************************************************)
(* Model of the bandwidth derivation engine of go_collective_profiler:     *)
(*   - package bandwidth (GetFromCallCounts, GetFromCallsCounts),          *)
(*   - the bandwidth command's main(), per communicator instance.          *)
(* float64 values are modelled as exact rationals <<n, d>> (d > 0), with   *)
(* the two non-finite IEEE-754 results of a division by zero kept apart:   *)
(* <<1, 0>> is +Inf and <<0, 0>> is NaN.  Go maps are functions with a     *)
(* finite domain; reading an absent key yields the zero value.             *)
(***************************************************************************)
EXTENDS Integers, Sequences, FiniteSets, TLC

VARIABLES
    \* ---- package bandwidth, called as a library ----
    args,            \* the arguments of GetFromCallsCounts
    ret,             \* what GetFromCallsCounts returned
    called,          \* whether GetFromCallsCounts has returned
    \* ---- the external Unit Scaler (internal/pkg/scale, not in src/) ----
    scaleRejects,    \* whether the Scaler returns an error on a non-finite value
    \* ---- main(), one communicator instance ----
    pc,              \* position in main()
    commCounts,      \* counts.LoadCommunicatorRawCompactFormatCounts result
    callsData,       \* profiler.AnalyzeJobRankCounts result (call id -> raw counts)
    allCalls,        \* []int of the call ids
    sendData,        \* call id -> rank -> total
    recvData,        \* call id -> rank -> total
    execTimesCallsData, \* call id -> rank -> elapsed time
    numRanks, sendDatatypeSize, recvDatatypeSize,
    bwData,          \* GetFromCallsCounts result in main()
    outputFile,      \* the report file: NoFile, or its lines
    cur              \* rendering cursor: [i |-> index in allCalls, rank |-> next rank, hdr |-> header written]

vars == <<args, ret, called, scaleRejects, pc, commCounts, callsData, allCalls,
          sendData, recvData, execTimesCallsData, numRanks, sendDatatypeSize,
          recvDatatypeSize, bwData, outputFile, cur>>

libVars == <<args, ret, called>>
mainVars == <<pc, commCounts, callsData, allCalls, sendData, recvData,
              execTimesCallsData, numRanks, sendDatatypeSize, recvDatatypeSize,
              bwData, outputFile, cur>>

----------------------------------------------------------------------------
\* Bounds of the model
\* the largest number of calls of a communicator instance
MaxCalls == 2
\* the largest communicator size
MaxRanks == 2
\* the largest call id the count analysis may produce
MaxCallId == 2
\* the largest number of (call, rank) entries of one dataset
MaxEntries == 4

----------------------------------------------------------------------------
\* float64 as exact rationals, plus +Inf and NaN

RECURSIVE GCD(_, _)
GCD(a, b) == IF b = 0 THEN a ELSE GCD(b, a % b)

Zero == <<0, 1>>
PosInf == <<1, 0>>
NaN == <<0, 0>>

IsFinite(v) == v[2] > 0

\* n/d in lowest terms (n >= 0, d > 0)
Rat(n, d) == LET g == GCD(n, d) IN <<n \div g, d \div g>>

\* float64(c) / t under IEEE-754: x/0 is +Inf for x > 0 and NaN for x = 0
FloatDiv(c, t) ==
    IF t[1] = 0 THEN (IF c > 0 THEN PosInf ELSE NaN)
    ELSE Rat(c * t[2], t[1])

\* Go's v != 0 on a float64: true of +Inf and of NaN
NotZero(v) == v # Zero

\* Go map read m[k]: the zero value when the key is absent
MapGet(m, k, zero) == IF k \in DOMAIN m THEN m[k] ELSE zero

\* Go map write m[k] = v
MapSet(m, k, v) == [x \in (DOMAIN m) \cup {k} |-> IF x = k THEN v ELSE m[x]]

EmptyMap == [x \in {} |-> 0]

----------------------------------------------------------------------------
\* The Unit Scaler, scale.Float64s("B/s", []float64{v}) (spec section 4.1)

Units == <<"B/s", "KB/s", "MB/s", "GB/s", "TB/s">>

RECURSIVE Pow1000(_)
Pow1000(k) == IF k = 0 THEN 1 ELSE 1000 * Pow1000(k - 1)

\* the largest prefix index k (0..4) with q >= 1000^k, q the integer part
RECURSIVE PrefixOf(_, _)
PrefixOf(q, k) == IF q >= 1000 /\ k < 4 THEN PrefixOf(q \div 1000, k + 1) ELSE k

Float64s(v, rejects) ==
    IF ~IsFinite(v)
    THEN [err |-> rejects, unit |-> "B/s", value |-> v]
    ELSE LET k == PrefixOf(v[1] \div v[2], 0)
         IN [err |-> FALSE, unit |-> Units[k + 1],
             value |-> Rat(v[1], v[2] * Pow1000(k))]

----------------------------------------------------------------------------
\* package bandwidth

NilCallData == [nil |-> TRUE]
NilCallsData == [nil |-> TRUE]

\* lines 44-50
NewCallData ==
    [SendData |-> EmptyMap, RecvData |-> EmptyMap,
     SendRankBW |-> EmptyMap, RecvRankBW |-> EmptyMap,
     ScaledSendRankBW |-> EmptyMap, ScaledSendRankBWUnit |-> "",
     ScaledRecvRankBW |-> EmptyMap, ScaledRecvRankBWUnit |-> ""]

\* line 56 and line 57: the divisions
SendBWSwapped(sendCounts, recvCounts, sendDatatypeSize_, recvDatatypeSize_, execTimes, rank) ==
    FloatDiv(MapGet(recvCounts, rank, 0), MapGet(execTimes, rank, Zero))

SendBW(sendCounts, recvCounts, sendDatatypeSize_, recvDatatypeSize_, execTimes, rank) ==
    FloatDiv(MapGet(sendCounts, rank, 0), MapGet(execTimes, rank, Zero))

RecvBW(sendCounts, recvCounts, sendDatatypeSize_, recvDatatypeSize_, execTimes, rank) ==
    FloatDiv(MapGet(recvCounts, rank, 0), MapGet(execTimes, rank, Zero))

\* lines 60-69: acc is [err, d, scaled]; scaled records the Scaler's invocations
ScaleSend(acc, rank, rejects) ==
    LET d == acc.d
        bw == d.SendRankBW[rank]
    IN IF NotZero(bw)
       THEN LET s == Float64s(bw, rejects)
                d1 == [d EXCEPT !.ScaledSendRankBWUnit = s.unit]
            IN IF s.err
               THEN [err |-> TRUE, d |-> NilCallData,
                     scaled |-> acc.scaled \cup {<<"send", rank>>}]
               ELSE [err |-> FALSE,
                     d |-> [d1 EXCEPT !.ScaledSendRankBW = MapSet(@, rank, s.value)],
                     scaled |-> acc.scaled \cup {<<"send", rank>>}]
       ELSE [acc EXCEPT !.d = [d EXCEPT !.ScaledSendRankBW = MapSet(@, rank, bw),
                                        !.ScaledSendRankBWUnit = "B/s"]]

\* lines 71-80
ScaleRecv(acc, rank, rejects) ==
    LET d == acc.d
        bw == d.RecvRankBW[rank]
    IN IF NotZero(bw)
       THEN LET s == Float64s(bw, rejects)
                d1 == [d EXCEPT !.ScaledRecvRankBWUnit = s.unit]
            IN IF s.err
               THEN [err |-> TRUE, d |-> NilCallData,
                     scaled |-> acc.scaled \cup {<<"recv", rank>>}]
               ELSE [err |-> FALSE,
                     d |-> [d1 EXCEPT !.ScaledRecvRankBW = MapSet(@, rank, s.value)],
                     scaled |-> acc.scaled \cup {<<"recv", rank>>}]
       ELSE [acc EXCEPT !.d = [d EXCEPT !.ScaledRecvRankBW = MapSet(@, rank, bw),
                                        !.ScaledRecvRankBWUnit = "B/s"]]

\* lines 52-81: the loop over the ranks, from `rank` on
RECURSIVE RankLoop(_, _, _, _, _, _, _, _, _)
RankLoop(acc, rank, ranks, sendCounts, recvCounts, sdt, rdt, execTimes, rejects) ==
    IF rank >= ranks THEN acc
    ELSE LET d0 == [acc.d EXCEPT
                      !.SendRankBW = MapSet(@, rank,
                          SendBW(sendCounts, recvCounts, sdt, rdt, execTimes, rank)),
                      !.RecvRankBW = MapSet(@, rank,
                          RecvBW(sendCounts, recvCounts, sdt, rdt, execTimes, rank))]
             a1 == ScaleSend([acc EXCEPT !.d = d0], rank, rejects)
         IN IF a1.err THEN a1
            ELSE LET a2 == ScaleRecv(a1, rank, rejects)
                 IN IF a2.err THEN a2
                    ELSE RankLoop(a2, rank + 1, ranks, sendCounts, recvCounts,
                                  sdt, rdt, execTimes, rejects)

\* lines 43-83
GetFromCallCounts(ranks, sendCounts, recvCounts, sdt, rdt, execTimes, rejects) ==
    RankLoop([err |-> FALSE, d |-> NewCallData, scaled |-> {}], 0, ranks,
             sendCounts, recvCounts, sdt, rdt, execTimes, rejects)

\* lines 101-103: a failed call ends the aggregation with (nil, err)
PartialOnError(acc, call, r) ==
    [err |-> TRUE, d |-> acc.d, scaled |-> MapSet(acc.scaled, call, r.scaled)]

FailCall(acc, call, r) ==
    [err |-> TRUE, d |-> NilCallsData, scaled |-> MapSet(acc.scaled, call, r.scaled)]

\* line 100: d.CallData[call] = the call's CallData
StoreCall(acc, call, r) ==
    [err |-> FALSE,
     d |-> [CallData |-> MapSet(acc.d.CallData, call, r.d)],
     scaled |-> MapSet(acc.scaled, call, r.scaled)]

\* lines 99-104: the loop over the calls, from `call` on
RECURSIVE CallsLoop(_, _, _, _, _, _, _, _, _, _)
CallsLoop(acc, call, numCalls, ranks, sendCounts, recvCounts, sdt, rdt, execTimes, rejects) ==
    IF call >= numCalls THEN acc
    ELSE LET r == GetFromCallCounts(ranks, MapGet(sendCounts, call, EmptyMap),
                                    MapGet(recvCounts, call, EmptyMap), sdt, rdt,
                                    MapGet(execTimes, call, EmptyMap), rejects)
         IN IF r.err THEN FailCall(acc, call, r)
            ELSE CallsLoop(StoreCall(acc, call, r), call + 1, numCalls, ranks,
                           sendCounts, recvCounts, sdt, rdt, execTimes, rejects)

\* lines 95-106.  The result is [err, d, scaled]: (d, err) are the two values
\* returned, scaled[call] is the set of <<direction, rank>> for which the
\* Scaler was invoked while computing `call`.
GetFromCallsCounts(numCalls, ranks, sendCounts, recvCounts, sdt, rdt, execTimes, rejects) ==
    CallsLoop([err |-> FALSE, d |-> [CallData |-> EmptyMap], scaled |-> EmptyMap],
              0, numCalls, ranks, sendCounts, recvCounts, sdt, rdt, execTimes, rejects)

----------------------------------------------------------------------------
\* Input sets of the library specification

SendCountVals == {0, 3, 2000}
RecvCountVals == {0, 4000}
TimeVals == {<<2, 1>>, <<1, 2>>}
DtSizePairs == {<<1, 1>>, <<4, 8>>}

\* partial maps from a subset of S to V
PartialMaps(S, V) == UNION {[D -> V] : D \in SUBSET S}

NoRet == [err |-> FALSE, d |-> NilCallsData, scaled |-> EmptyMap]
NoArgs == [numCalls |-> 0, ranks |-> 0, sendCounts |-> EmptyMap, recvCounts |-> EmptyMap,
           sendDatatypeSize |-> 0, recvDatatypeSize |-> 0, execTimes |-> EmptyMap]

\* main() is not running while the library specification is checked
MainIdle ==
    /\ pc = "idle"
    /\ commCounts = <<>>
    /\ callsData = EmptyMap
    /\ allCalls = <<>>
    /\ sendData = EmptyMap
    /\ recvData = EmptyMap
    /\ execTimesCallsData = EmptyMap
    /\ numRanks = 0
    /\ sendDatatypeSize = 0
    /\ recvDatatypeSize = 0
    /\ bwData = NoRet
    /\ outputFile = [exists |-> FALSE, lines |-> <<>>]
    /\ cur = [i |-> 1, rank |-> 0, hdr |-> FALSE]

InitLib ==
    /\ \E n \in 0..MaxCalls, k \in 0..MaxRanks :
         /\ n * k <= MaxEntries
         /\ \E send \in [0..(n-1) -> [0..(k-1) -> SendCountVals]],
               recv \in [0..(n-1) -> [0..(k-1) -> RecvCountVals]],
               times \in PartialMaps(0..(n-1), PartialMaps(0..(k-1), TimeVals)),
               dt \in DtSizePairs :
              args = [numCalls |-> n, ranks |-> k,
                      sendCounts |-> send, recvCounts |-> recv,
                      sendDatatypeSize |-> dt[1], recvDatatypeSize |-> dt[2],
                      execTimes |-> times]
    /\ ret = NoRet
    /\ called = FALSE
    /\ scaleRejects \in BOOLEAN
    /\ MainIdle

\* a caller invokes GetFromCallsCounts
CallGetFromCallsCounts ==
    /\ ~called
    /\ ret' = GetFromCallsCounts(args.numCalls, args.ranks, args.sendCounts,
                                 args.recvCounts, args.sendDatatypeSize,
                                 args.recvDatatypeSize, args.execTimes, scaleRejects)
    /\ called' = TRUE
    /\ UNCHANGED <<args, scaleRejects, mainVars>>

NextLib == CallGetFromCallsCounts

SpecLib == InitLib /\ [][NextLib]_vars

----------------------------------------------------------------------------
\* main(): helpers

NoFile == [exists |-> FALSE, lines |-> <<>>]

\* sum of a list of counts (lines 229-231 and 239-241)
RECURSIVE SumList(_)
SumList(l) == IF l = <<>> THEN 0 ELSE Head(l) + SumList(Tail(l))

\* lines 226-232: the per-rank totals of one call
ReduceRanksData(ranksData) == [rank \in DOMAIN ranksData |-> SumList(ranksData[rank])]

\* sort.Ints as an insertion sort
RECURSIVE Insert(_, _)
Insert(x, s) ==
    IF s = <<>> THEN <<x>>
    ELSE IF x <= Head(s) THEN <<x>> \o s
    ELSE <<Head(s)>> \o Insert(x, Tail(s))

RECURSIVE InsertionSort(_)
InsertionSort(s) == IF s = <<>> THEN <<>> ELSE Insert(Head(s), InsertionSort(Tail(s)))

\* line 244: sort.Ints(allCalls)
Unsorted(s) == s

SortInts(s) == InsertionSort(s)

\* the orders in which `range` may iterate over a map with key set K
IterationOrders(K) ==
    {o \in [1..Cardinality(K) -> K] : \A i, j \in 1..Cardinality(K) : i # j => o[i] # o[j]}

\* fmt.Sprintf("%.2f", v): the value in hundredths, rounded to nearest, ties to even
Fmt2(v) ==
    IF v = PosInf THEN <<"+Inf", 0>>
    ELSE IF v = NaN THEN <<"NaN", 0>>
    ELSE LET q == (100 * v[1]) \div v[2]
             r == (100 * v[1]) % v[2]
         IN IF 2 * r > v[2] \/ (2 * r = v[2] /\ q % 2 = 1)
            THEN <<"num", q + 1>> ELSE <<"num", q>>

\* line 294, line 301, line 307: the three kinds of line of the report
HeaderLine(callId) == [t |-> "header", call |-> callId]
RankLine(d, rank) ==
    [t |-> "rank", send |-> Fmt2(MapGet(d.SendRankBW, rank, Zero)),
                   recv |-> Fmt2(MapGet(d.RecvRankBW, rank, Zero))]
BlankLine == [t |-> "blank"]

\* lines 264, 269, 274: commCounts[0]
LastRecord(cc) == cc[Len(cc)]

FirstRecord(cc) == cc[1]

----------------------------------------------------------------------------
\* main(): inputs delivered by the external parsers

DtVals == {0, 4}
RawSendLists == {<<>>, <<3, 4, 5>>}
RawRecvLists == {<<>>, <<4000>>}
ParsedTimes == {<<3, 1>>}
TailRecord == [CommSize |-> 1, SendDatatypeSize |-> 8, RecvDatatypeSize |-> 8]

CountRecords == [CommSize : 0..MaxRanks, SendDatatypeSize : DtVals, RecvDatatypeSize : DtVals]

CountRecordSeqs ==
    {<<>>} \cup {<<f>> : f \in CountRecords} \cup {<<f, TailRecord>> : f \in CountRecords}

\* the ranks the count files of the instance describe
RanksOf(cc) == IF cc = <<>> THEN {} ELSE 0..(cc[1].CommSize - 1)

CallIdSets(cc) ==
    {K \in SUBSET (0..MaxCallId) :
        /\ Cardinality(K) <= MaxCalls
        /\ Cardinality(K) * Cardinality(RanksOf(cc)) <= MaxEntries}

CallsDataSets(cc) ==
    UNION {[K -> [SendCounts : [RanksOf(cc) -> RawSendLists],
                  RecvCounts : [RanksOf(cc) -> RawRecvLists]]] : K \in CallIdSets(cc)}

\* timing tables: a call is absent, or has a time for every rank
TimeTables(cc) == PartialMaps(0..MaxCallId, [RanksOf(cc) -> ParsedTimes])

----------------------------------------------------------------------------
\* main(), one communicator instance (lines 187-315)

Init ==
    /\ args = NoArgs
    /\ ret = NoRet
    /\ called = FALSE
    /\ scaleRejects \in BOOLEAN
    /\ pc = "GetJobId"
    /\ commCounts = <<>>
    /\ callsData = EmptyMap
    /\ allCalls = <<>>
    /\ sendData = EmptyMap
    /\ recvData = EmptyMap
    /\ execTimesCallsData = EmptyMap
    /\ numRanks = 0
    /\ sendDatatypeSize = 0
    /\ recvDatatypeSize = 0
    /\ bwData = NoRet
    /\ outputFile = NoFile
    /\ cur = [i |-> 1, rank |-> 0, hdr |-> FALSE]

\* lines 190-194
GetJobId ==
    /\ pc = "GetJobId"
    /\ \E ok \in BOOLEAN : pc' = IF ok THEN "LoadCounts" ELSE "exit1"
    /\ UNCHANGED <<libVars, scaleRejects, commCounts, callsData, allCalls, sendData,
                   recvData, execTimesCallsData, numRanks, sendDatatypeSize,
                   recvDatatypeSize, bwData, outputFile, cur>>

\* lines 197-201
LoadCounts ==
    /\ pc = "LoadCounts"
    /\ \E ok \in BOOLEAN :
         IF ok THEN /\ commCounts' \in CountRecordSeqs
                    /\ pc' = "Analyze"
         ELSE /\ commCounts' = commCounts
              /\ pc' = "exit1"
    /\ UNCHANGED <<libVars, scaleRejects, callsData, allCalls, sendData,
                   recvData, execTimesCallsData, numRanks, sendDatatypeSize,
                   recvDatatypeSize, bwData, outputFile, cur>>

\* lines 203-220
Analyze ==
    /\ pc = "Analyze"
    /\ \E ok \in BOOLEAN :
         IF ok THEN /\ callsData' \in CallsDataSets(commCounts)
                    /\ pc' = "PostProcess"
         ELSE /\ callsData' = callsData
              /\ pc' = "exit1"
    /\ UNCHANGED <<libVars, scaleRejects, commCounts, allCalls, sendData,
                   recvData, execTimesCallsData, numRanks, sendDatatypeSize,
                   recvDatatypeSize, bwData, outputFile, cur>>

\* lines 223-244
PostProcess ==
    /\ pc = "PostProcess"
    /\ \E order \in IterationOrders(DOMAIN callsData) : allCalls' = SortInts(order)
    /\ sendData' = [callId \in DOMAIN callsData |->
                       ReduceRanksData(callsData[callId].SendCounts)]
    /\ recvData' = [callId \in DOMAIN callsData |->
                       ReduceRanksData(callsData[callId].RecvCounts)]
    /\ pc' = "LoadTimes"
    /\ UNCHANGED <<libVars, scaleRejects, commCounts, callsData,
                   execTimesCallsData, numRanks, sendDatatypeSize,
                   recvDatatypeSize, bwData, outputFile, cur>>

\* lines 247-259
LoadTimes ==
    /\ pc = "LoadTimes"
    /\ \E ok \in BOOLEAN :
         IF ok THEN /\ execTimesCallsData' \in TimeTables(commCounts)
                    /\ pc' = "DeriveSizes"
         ELSE /\ execTimesCallsData' = execTimesCallsData
              /\ pc' = "exit1"
    /\ UNCHANGED <<libVars, scaleRejects, commCounts, callsData, allCalls, sendData,
                   recvData, numRanks, sendDatatypeSize,
                   recvDatatypeSize, bwData, outputFile, cur>>

\* lines 264-278; commCounts[0] of an empty slice panics
DeriveSizes ==
    /\ pc = "DeriveSizes"
    /\ IF commCounts = <<>>
       THEN /\ pc' = "panic"
            /\ UNCHANGED <<numRanks, sendDatatypeSize, recvDatatypeSize>>
       ELSE LET first == FirstRecord(commCounts) IN
            /\ numRanks' = first.CommSize
            /\ sendDatatypeSize' =
                 IF first.CommSize = 0 THEN sendDatatypeSize ELSE first.SendDatatypeSize
            /\ recvDatatypeSize' =
                 IF first.CommSize = 0 \/ first.SendDatatypeSize = 0
                 THEN recvDatatypeSize ELSE first.RecvDatatypeSize
            /\ pc' = IF \/ first.CommSize = 0
                        \/ first.SendDatatypeSize = 0
                        \/ first.RecvDatatypeSize = 0
                     THEN "exit1" ELSE "Aggregate"
    /\ UNCHANGED <<libVars, scaleRejects, commCounts, callsData, allCalls, sendData,
                   recvData, execTimesCallsData, bwData, outputFile, cur>>

\* lines 279-283
Aggregate ==
    /\ pc = "Aggregate"
    /\ bwData' = GetFromCallsCounts(Cardinality(DOMAIN callsData), numRanks, sendData,
                                    recvData, sendDatatypeSize, recvDatatypeSize,
                                    execTimesCallsData, scaleRejects)
    /\ pc' = IF bwData'.err THEN "exit1" ELSE "Create"
    /\ UNCHANGED <<libVars, scaleRejects, commCounts, callsData, allCalls, sendData,
                   recvData, execTimesCallsData, numRanks, sendDatatypeSize,
                   recvDatatypeSize, outputFile, cur>>

\* lines 285-291
CreateFile ==
    /\ pc = "Create"
    /\ \E ok \in BOOLEAN :
         IF ok THEN /\ outputFile' = [exists |-> TRUE, lines |-> <<>>]
                    /\ pc' = "Render"
         ELSE /\ outputFile' = outputFile
              /\ pc' = "exit1"
    /\ UNCHANGED <<libVars, scaleRejects, commCounts, callsData, allCalls, sendData,
                   recvData, execTimesCallsData, numRanks, sendDatatypeSize,
                   recvDatatypeSize, bwData, cur>>

\* a WriteString of `line`: it is appended, or the write fails and main exits
WriteString(line, next) ==
    \E ok \in BOOLEAN :
        IF ok THEN /\ outputFile' = [outputFile EXCEPT !.lines = Append(@, line)]
                   /\ pc' = "Render"
                   /\ cur' = next
        ELSE /\ outputFile' = outputFile
             /\ pc' = "exit1"
             /\ cur' = cur

\* lines 293-299: the header of the next call
WriteHeader ==
    /\ pc = "Render"
    /\ cur.i <= Len(allCalls)
    /\ ~cur.hdr
    /\ WriteString(HeaderLine(allCalls[cur.i]), [cur EXCEPT !.hdr = TRUE, !.rank = 0])
    /\ UNCHANGED <<libVars, scaleRejects, commCounts, callsData, allCalls, sendData,
                   recvData, execTimesCallsData, numRanks, sendDatatypeSize,
                   recvDatatypeSize, bwData>>

\* line 299: d := bwData.CallData[callId], nil when the key is absent
CurrentCallData == MapGet(bwData.d.CallData, allCalls[cur.i], NilCallData)

\* lines 300-306: one rank's line; d.SendRankBW of a nil d panics
WriteRank ==
    /\ pc = "Render"
    /\ cur.i <= Len(allCalls)
    /\ cur.hdr
    /\ cur.rank < numRanks
    /\ IF CurrentCallData = NilCallData
       THEN /\ pc' = "panic"
            /\ UNCHANGED <<outputFile, cur>>
       ELSE WriteString(RankLine(CurrentCallData, cur.rank), [cur EXCEPT !.rank = @ + 1])
    /\ UNCHANGED <<libVars, scaleRejects, commCounts, callsData, allCalls, sendData,
                   recvData, execTimesCallsData, numRanks, sendDatatypeSize,
                   recvDatatypeSize, bwData>>

\* lines 307-311: the blank line closing the call's block
WriteBlank ==
    /\ pc = "Render"
    /\ cur.i <= Len(allCalls)
    /\ cur.hdr
    /\ cur.rank >= numRanks
    /\ WriteString(BlankLine, [i |-> cur.i + 1, rank |-> 0, hdr |-> FALSE])
    /\ UNCHANGED <<libVars, scaleRejects, commCounts, callsData, allCalls, sendData,
                   recvData, execTimesCallsData, numRanks, sendDatatypeSize,
                   recvDatatypeSize, bwData>>

\* line 313: every call was rendered
Finish ==
    /\ pc = "Render"
    /\ cur.i > Len(allCalls)
    /\ pc' = "done"
    /\ UNCHANGED <<libVars, scaleRejects, commCounts, callsData, allCalls, sendData,
                   recvData, execTimesCallsData, numRanks, sendDatatypeSize,
                   recvDatatypeSize, bwData, outputFile, cur>>

Next ==
    \/ GetJobId
    \/ LoadCounts
    \/ Analyze
    \/ PostProcess
    \/ LoadTimes
    \/ DeriveSizes
    \/ Aggregate
    \/ CreateFile
    \/ WriteHeader
    \/ WriteRank
    \/ WriteBlank
    \/ Finish

Spec == Init /\ [][Next]_vars

----------------------------------------------------------------------------
\* Properties of package bandwidth (checked under SpecLib)

\* the execution time the Calculator reads for (call, rank): 0.0 when absent
TimeOf(call, rank) == MapGet(MapGet(args.execTimes, call, EmptyMap), rank, Zero)
SendCountOf(call, rank) == MapGet(MapGet(args.sendCounts, call, EmptyMap), rank, 0)
RecvCountOf(call, rank) == MapGet(MapGet(args.recvCounts, call, EmptyMap), rank, 0)
TimeAbsent(call, rank) ==
    \/ call \notin DOMAIN args.execTimes
    \/ rank \notin DOMAIN args.execTimes[call]

ArgCalls == 0..(args.numCalls - 1)
ArgRanks == 0..(args.ranks - 1)
Returned == called /\ ~ret.err

\* bw is exactly the quotient bytes / t (t > 0), by cross-multiplication
IsQuotient(bw, bytes, t) == IsFinite(bw) /\ bw[1] * t[1] = bytes * t[2] * bw[2]

\* C1: in every returned CallData the send (receive) bandwidth of a rank whose
\* execution time is positive is its send (receive) total divided by that time.
C1_BandwidthIsTotalOverTime ==
    Returned =>
      \A call \in ArgCalls : \A r \in ArgRanks :
        TimeOf(call, r)[1] > 0 =>
          /\ IsQuotient(ret.d.CallData[call].SendRankBW[r],
                        SendCountOf(call, r), TimeOf(call, r))
          /\ IsQuotient(ret.d.CallData[call].RecvRankBW[r],
                        RecvCountOf(call, r), TimeOf(call, r))

\* a returned CallData with two ranks of different, non-zero send bandwidth
C1_Witness ==
    /\ Returned
    /\ args.numCalls = 2 /\ args.ranks = 2
    /\ \A call \in ArgCalls : \A r \in ArgRanks : TimeOf(call, r)[1] > 0
    /\ TimeOf(1, 0) = <<2, 1>> /\ TimeOf(1, 1) = <<1, 2>>
    /\ ret.d.CallData[1].SendRankBW[0] = <<3, 2>>
    /\ ret.d.CallData[1].SendRankBW[1] = <<4000, 1>>
    /\ ret.d.CallData[1].RecvRankBW[1] = <<8000, 1>>

\* C2: in every returned CallData every rank has an entry in the send bytes,
\* receive bytes, send bandwidth, receive bandwidth, scaled send bandwidth and
\* scaled receive bandwidth maps, and both units are set.
C2_AllRanksPresent ==
    Returned =>
      \A call \in ArgCalls :
        /\ call \in DOMAIN ret.d.CallData
        /\ \A r \in ArgRanks :
             LET d == ret.d.CallData[call] IN
             /\ r \in DOMAIN d.SendData
             /\ r \in DOMAIN d.RecvData
             /\ r \in DOMAIN d.SendRankBW
             /\ r \in DOMAIN d.RecvRankBW
             /\ r \in DOMAIN d.ScaledSendRankBW
             /\ r \in DOMAIN d.ScaledRecvRankBW
             /\ d.ScaledSendRankBWUnit # ""
             /\ d.ScaledRecvRankBWUnit # ""

\* C3: the Scaler is not invoked for a rank whose send (receive) bandwidth is
\* exactly 0, and the unit the returned CallData reports for that rank's scaled
\* send (receive) bandwidth is "B/s".
C3_ZeroBandwidthBypass ==
    Returned =>
      \A call \in ArgCalls : \A r \in ArgRanks :
        LET d == ret.d.CallData[call] IN
        /\ d.SendRankBW[r] = Zero =>
             /\ <<"send", r>> \notin ret.scaled[call]
             /\ d.ScaledSendRankBWUnit = "B/s"
        /\ d.RecvRankBW[r] = Zero =>
             /\ <<"recv", r>> \notin ret.scaled[call]
             /\ d.ScaledRecvRankBWUnit = "B/s"

\* the per-call computation of `call`, on its own
PerCall(call) ==
    GetFromCallCounts(args.ranks, MapGet(args.sendCounts, call, EmptyMap),
                      MapGet(args.recvCounts, call, EmptyMap), args.sendDatatypeSize,
                      args.recvDatatypeSize, MapGet(args.execTimes, call, EmptyMap),
                      scaleRejects)

\* C4: the aggregation fails exactly when some per-call computation fails; a
\* failed aggregation returns no CallsData, and a successful one returns the
\* CallData of every call 0..numCalls-1.
C4_AllOrNothing ==
    called =>
      /\ ret.err <=> (\E call \in ArgCalls : PerCall(call).err)
      /\ ret.err => ret.d = NilCallsData
      /\ ~ret.err =>
           /\ ret.d # NilCallsData
           /\ DOMAIN ret.d.CallData = ArgCalls
           /\ \A call \in ArgCalls : ret.d.CallData[call] = PerCall(call).d

\* a failure at call 1, after call 0 was computed
C4_Witness ==
    /\ called /\ ret.err
    /\ args.numCalls = 2 /\ args.ranks = 2
    /\ ~PerCall(0).err
    /\ PerCall(1).err

\* C8: when the execution-time table lacks an entry for a (call, rank) the
\* Calculator queries, the computation returns an error.
C8_MissingTimeIsAnError ==
    (called /\ \E call \in ArgCalls : \E r \in ArgRanks : TimeAbsent(call, r)) => ret.err

\* C9: the send (receive) bandwidth of a rank with positive execution time t is
\* (count * datatype size) / t.
C9_BandwidthIsBytesOverTime ==
    Returned =>
      \A call \in ArgCalls : \A r \in ArgRanks :
        TimeOf(call, r)[1] > 0 =>
          /\ IsQuotient(ret.d.CallData[call].SendRankBW[r],
                        SendCountOf(call, r) * args.sendDatatypeSize, TimeOf(call, r))
          /\ IsQuotient(ret.d.CallData[call].RecvRankBW[r],
                        RecvCountOf(call, r) * args.recvDatatypeSize, TimeOf(call, r))

----------------------------------------------------------------------------
\* Properties of main() (checked under Spec)

Failed == pc \in {"exit1", "panic"}
PastDeriveSizes == pc \in {"Aggregate", "Create", "Render", "done"}
Degenerate(rec) ==
    rec.CommSize = 0 \/ rec.SendDatatypeSize = 0 \/ rec.RecvDatatypeSize = 0

\* C5: when main has stopped on a failure, a report file that exists holds all
\* the blocks of the instance (header, one line per rank, blank line, per call).
C5_NoPartialReport ==
    (Failed /\ outputFile.exists) =>
        Len(outputFile.lines) = Len(allCalls) * (numRanks + 2)

\* C6: the three sizes are those of the first count record; when one of them
\* is zero, main never goes past the checks: GetFromCallsCounts is not
\* invoked and no report file is created.
C6_DegenerateDatasetFails ==
    /\ PastDeriveSizes =>
         /\ commCounts # <<>>
         /\ numRanks = commCounts[1].CommSize
         /\ sendDatatypeSize = commCounts[1].SendDatatypeSize
         /\ recvDatatypeSize = commCounts[1].RecvDatatypeSize
    /\ (commCounts # <<>> /\ Degenerate(commCounts[1])) =>
         /\ ~PastDeriveSizes
         /\ bwData = NoRet
         /\ ~outputFile.exists

\* main exited at the checks on a first record whose receive datatype size is
\* zero, although a later record is not degenerate
C6_Witness ==
    /\ pc = "exit1"
    /\ Len(commCounts) = 2
    /\ commCounts[1].CommSize = 2
    /\ commCounts[1].SendDatatypeSize = 4
    /\ commCounts[1].RecvDatatypeSize = 0
    /\ numRanks = 2 /\ sendDatatypeSize = 4
    /\ DOMAIN callsData # {}

\* the call ids of the analysed call map, in ascending order
RECURSIVE IdsFrom(_)
IdsFrom(i) ==
    IF i > MaxCallId THEN <<>>
    ELSE (IF i \in DOMAIN callsData THEN <<i>> ELSE <<>>) \o IdsFrom(i + 1)

\* the block of a call: header, ranks 0..numRanks-1 in ascending order, blank
ExpectedBlock(callId) ==
    <<HeaderLine(callId)>>
    \o [k \in 1..numRanks |->
          [t |-> "rank",
           send |-> Fmt2(bwData.d.CallData[callId].SendRankBW[k - 1]),
           recv |-> Fmt2(bwData.d.CallData[callId].RecvRankBW[k - 1])]]
    \o <<BlankLine>>

RECURSIVE ExpectedReport(_)
ExpectedReport(ids) ==
    IF ids = <<>> THEN <<>> ELSE ExpectedBlock(Head(ids)) \o ExpectedReport(Tail(ids))

IsPrefix(s, t) == Len(s) <= Len(t) /\ s = SubSeq(t, 1, Len(s))

\* every analysed call id has a CallData
Aligned == DOMAIN callsData \subseteq DOMAIN bwData.d.CallData

\* C7: the rendered report is the sequence of the calls' blocks in ascending
\* call-id order, each block a header, then one line per rank 0..numRanks-1 in
\* ascending order with that rank's unscaled bandwidths, then a blank line;
\* while it is being written the file is a prefix of that sequence.
C7_ReportInAscendingOrder ==
    /\ pc = "done" => outputFile.lines = ExpectedReport(IdsFrom(0))
    /\ (pc = "Render" /\ Aligned) => IsPrefix(outputFile.lines, ExpectedReport(IdsFrom(0)))

\* a finished report of two calls and two ranks whose lines all differ
C7_Witness ==
    /\ pc = "done"
    /\ DOMAIN callsData = {0, 1}
    /\ numRanks = 2
    /\ Len(outputFile.lines) = 8
    /\ outputFile.lines[2] # outputFile.lines[3]
    /\ outputFile.lines[2] # outputFile.lines[6]
    /\ outputFile.lines[3] # outputFile.lines[7]

\* C10: a call whose block is being rendered has a CallData in the CallsData
\* returned by GetFromCallsCounts.
C10_RenderedCallHasCallData ==
    (pc = "Render" /\ cur.hdr) => allCalls[cur.i] \in DOMAIN bwData.d.CallData

====
